---- MODULE Spec2Model ----
(***************************************************************************)
(* Sentinela (src/sentinela.cpp): ESP32 alarm firmware.  One cooperative   *)
(* loop() polls Wi-Fi, Telegram, the RF receiver and a push-button, then   *)
(* evaluates the PIR motion sensor.  The model follows the loop statement  *)
(* by statement; the environment (clock, pins, link, chat server, radio)   *)
(* changes between the steps.                                              *)
(***************************************************************************)
EXTENDS Integers, Sequences, FiniteSets, TLC

\* ------------------------------------------------------------------ bounds
MaxTicks  == 4         \* clock advances in one behaviour of SpecTempo
MaxRounds == 1         \* clock advances in one behaviour of Spec
MaxPolls  == 3         \* clock advances in one behaviour of SpecChat
MaxMsgs   == 2         \* chat messages sent in one behaviour (Spec)
MaxChat   == 3         \* the same, where the chat cursor is followed (SpecChat)
MaxBatch  == 2         \* messages one getUpdates call may return

\* ------------------------------------------------------- program constants
CODE_ARM          == 1234567
CODE_DISARM       == 7654321
msgInterval       == 3000
wifiCheckInterval == 10000
debounceDelay     == 50
connectTimeout    == 15000
connectDelay      == 500

HIGH == "HIGH"
LOW  == "LOW"

\* unsigned long is 32 bits wide on the ESP32.  A 32-bit value is kept as
\* <<high half, low half>>, two 16-bit halves; arithmetic is modulo 2^32.
Half == 2^16
U32(n) == <<(n \div Half) % Half, n % Half>>
\* a + d modulo 2^32, for a 32-bit a and a natural d
Add32(a, d) ==
  LET lo == a[2] + (d % Half)
      hi == a[1] + (d \div Half) + (lo \div Half)
  IN  <<hi % Half, lo % Half>>
\* variant: the difference is not taken modulo 2^32 but stops at 0
Sub32_semVolta(a, b) ==
  IF a[1] < b[1] \/ (a[1] = b[1] /\ a[2] < b[2])
  THEN <<0, 0>>
  ELSE LET lo == a[2] - b[2]
           hi == a[1] - b[1] - (IF lo < 0 THEN 1 ELSE 0)
       IN  <<(hi + Half) % Half, (lo + Half) % Half>>

\* a - b modulo 2^32, for 32-bit a and b
Sub32(a, b) ==
  LET lo == a[2] - b[2]
      hi == a[1] - b[1] - (IF lo < 0 THEN 1 ELSE 0)
  IN  <<(hi + Half) % Half, (lo + Half) % Half>>
\* unsigned comparisons of a 32-bit x with a natural n below 2^31
Gt32(x, n) == x[1] > n \div Half \/ (x[1] = n \div Half /\ x[2] > n % Half)
Lt32(x, n) == x[1] < n \div Half \/ (x[1] = n \div Half /\ x[2] < n % Half)

\* --------------------------------------------------- environment inputs
Deltas       == {25, 1500}      \* ms that may pass between two statements
Coarse       == {3001}          \* the same, in steps longer than msgInterval      \* ms that may pass between two steps
ConnectAfter == {0, 31}            \* delay(500) rounds until the link is up (31: not within the timeout)
RFCodes      == {CODE_ARM, CODE_DISARM, 42}
Texts        == {"/armar", "/desarmar", "/status", "/logs", "/oi"}
Origens      == {"Telegram", "Controle RF", "Botao fisico"}
LogFiles     == {"ausente", "vazio", "ok"}

VARIABLES
  pc,                     \* statement of setup()/loop() executed next
  now,                    \* millis()
  ticks,                  \* clock advances left in this behaviour
  sistemaAtivo, alarmeDisparado,
  relay,                  \* level last written to RELAY_PIN
  lastMsgTime, lastWiFiCheck, wifiConectadoAnterior,
  ultimoEstado, ultimoDebounce,        \* static locals of checarBotao
  wifiUp,                 \* WiFi.status() == WL_CONNECTED
  botaoPin,               \* raw level of BUTTON_PIN
  estavel,                \* ms the raw level has been constant, counted up to debounceDelay + 1
  apertos,                \* commands checarBotao issued since the raw level last changed
  rfAvailable, rfValue,   \* rfReceiver.available() / getReceivedValue()
  updates,                \* updates the chat server holds: [update_id, text], oldest first
  sent,                   \* chat messages sent to the bot so far
  last_message_received,  \* bot.last_message_received
  messages, i,            \* bot.messages and the loop index of checarTelegram
  fx,                     \* calls made by the last step: <<function, argument, origem>>
  lastCmd,                \* <<function, origem>> the last step dispatched to
  handled,                \* update ids passed to handleNewMessage, in order
  sirenes,                \* dispararAlarme calls since the system was last armed
  lastFetch,              \* millis() at the last getUpdates call, <<>> if none
  ciclo,                  \* Arm/Disarm calls of the current pass of loop(): <<function, origem>>
  desdeMsg,               \* ms really passed since lastMsgTime was set, counted up to msgInterval + 1
  desdeWiFi,              \* the same for lastWiFiCheck, up to wifiCheckInterval + 1
  desdeBotao              \* the same for ultimoDebounce, up to debounceDelay + 1

vars == <<pc, now, ticks, sistemaAtivo, alarmeDisparado, relay, lastMsgTime,
          lastWiFiCheck, wifiConectadoAnterior, ultimoEstado, ultimoDebounce,
          wifiUp, botaoPin, estavel, apertos, rfAvailable, rfValue, updates, sent,
          last_message_received, messages, i, fx, lastCmd, handled, sirenes,
          lastFetch, ciclo, desdeMsg, desdeWiFi, desdeBotao>>

NoCmd == <<"", "">>

\* ----------------------------------------------------- alarm controller
\* The handlers work on a record of the flags, the relay level and the calls
\* made so far in the current step.
Ctl == [ativo |-> sistemaAtivo, disparado |-> alarmeDisparado, relay |-> relay,
        fx |-> <<>>, cmd |-> NoCmd]

logEvento(s, msg, origem) == [s EXCEPT !.fx = Append(@, <<"logEvento", msg, origem>>)]

sendMessage(s, msg, origem) == [s EXCEPT !.fx = Append(@, <<"sendMessage", msg, origem>>)]

digitalWrite(s, level) ==
  [s EXCEPT !.relay = level, !.fx = Append(@, <<"digitalWrite", level, "">>)]

\* variant: the notification is sent before the relay is written
dispararAlarme_notifyFirst(s) ==
  LET s1 == [digitalWrite(sendMessage(s, "ALERTA", ""), HIGH) EXCEPT !.disparado = TRUE]
  IN  logEvento(s1, "Alarme efetivamente disparado", "")

\* variant: the alarm is flagged and notified but the relay is not written
dispararAlarme_semRele(s) ==
  LET s1 == [s EXCEPT !.disparado = TRUE]
  IN  logEvento(sendMessage(s1, "ALERTA", ""), "Alarme efetivamente disparado", "")

dispararAlarme(s) ==
  LET s1 == [digitalWrite(s, HIGH) EXCEPT !.disparado = TRUE]
  IN  logEvento(sendMessage(s1, "ALERTA", ""), "Alarme efetivamente disparado", "")

\* variant: line 287 left out, the alarm flag survives a disarm
desarmarSistema_keepsTriggered(s, origem) ==
  LET s1 == [digitalWrite(s, LOW) EXCEPT !.ativo = FALSE,
                                         !.cmd = <<"desarmarSistema", origem>>]
  IN  logEvento(sendMessage(s1, "DESARMADO", origem), "DESARMADO", origem)

\* variant: the relay is written only when the siren is on
desarmarSistema_relayIfTriggered(s, origem) ==
  LET s0 == IF s.disparado THEN digitalWrite(s, LOW) ELSE s
      s1 == [s0 EXCEPT !.disparado = FALSE, !.ativo = FALSE,
                       !.cmd = <<"desarmarSistema", origem>>]
  IN  logEvento(sendMessage(s1, "DESARMADO", origem), "DESARMADO", origem)

\* variant: once the siren is on only the chat can disarm
desarmarSistema_chatOnly(s, origem) ==
  IF s.disparado /\ origem # "Telegram"
  THEN sendMessage([s EXCEPT !.cmd = <<"desarmarSistema", origem>>], "DESARMADO", origem)
  ELSE LET s1 == [digitalWrite(s, LOW) EXCEPT !.disparado = FALSE, !.ativo = FALSE,
                                              !.cmd = <<"desarmarSistema", origem>>]
       IN  logEvento(sendMessage(s1, "DESARMADO", origem), "DESARMADO", origem)

\* variant: a Disarm of a disarmed system is ignored
desarmarSistema_ignoraRepetido(s, origem) ==
  IF ~s.ativo
  THEN [s EXCEPT !.cmd = <<"desarmarSistema", origem>>]
  ELSE LET s1 == [digitalWrite(s, LOW) EXCEPT !.disparado = FALSE, !.ativo = FALSE,
                                              !.cmd = <<"desarmarSistema", origem>>]
       IN  logEvento(sendMessage(s1, "DESARMADO", origem), "DESARMADO", origem)

desarmarSistema(s, origem) ==
  LET s1 == [digitalWrite(s, LOW) EXCEPT !.disparado = FALSE, !.ativo = FALSE,
                                         !.cmd = <<"desarmarSistema", origem>>]
  IN  logEvento(sendMessage(s1, "DESARMADO", origem), "DESARMADO", origem)

\* variant: the test of line 299 left out, every Arm arms again
armarSistema_noGuard(s, origem) ==
  LET s1 == [s EXCEPT !.ativo = TRUE, !.disparado = FALSE,
                      !.cmd = <<"armarSistema", origem>>]
  IN  logEvento(sendMessage(s1, "ARMADO", origem), "ARMADO", origem)

armarSistema(s, origem) ==
  IF ~s.ativo
  THEN LET s1 == [s EXCEPT !.ativo = TRUE, !.disparado = FALSE,
                           !.cmd = <<"armarSistema", origem>>]
       IN  logEvento(sendMessage(s1, "ARMADO", origem), "ARMADO", origem)
  ELSE sendMessage([s EXCEPT !.cmd = <<"armarSistema", origem>>], "ja armado", "")

enviarLogsTelegram(s, arquivo) ==
  CASE arquivo = "ausente" -> sendMessage(s, "Erro: arquivo de log", "")
    [] arquivo = "vazio"   -> sendMessage(s, "log vazio", "")
    [] OTHER               -> [s EXCEPT !.fx = Append(@, <<"sendDocument", "log_sentinela.txt", "">>)]

\* variant: /status always reports the siren as off
handleNewMessage_sireneNao(s, text, arquivo) ==
  CASE text = "/armar"    -> armarSistema(s, "Telegram")
    [] text = "/desarmar" -> desarmarSistema(s, "Telegram")
    [] text = "/status"   ->
         sendMessage([s EXCEPT !.cmd = <<"status", "Telegram">>],
                     IF s.ativo THEN "ARMADO" ELSE "DESARMADO", "NAO")
    [] text = "/logs"     ->
         enviarLogsTelegram([s EXCEPT !.cmd = <<"logs", "Telegram">>], arquivo)
    [] OTHER              ->
         sendMessage([s EXCEPT !.cmd = <<"desconhecido", "Telegram">>],
                     "Comando nao reconhecido", "")

handleNewMessage(s, text, arquivo) ==
  CASE text = "/armar"    -> armarSistema(s, "Telegram")
    [] text = "/desarmar" -> desarmarSistema(s, "Telegram")
    [] text = "/status"   ->
         sendMessage([s EXCEPT !.cmd = <<"status", "Telegram">>],
                     IF s.ativo THEN "ARMADO" ELSE "DESARMADO",
                     IF s.disparado THEN "SIM" ELSE "NAO")
    [] text = "/logs"     ->
         enviarLogsTelegram([s EXCEPT !.cmd = <<"logs", "Telegram">>], arquivo)
    [] OTHER              ->
         sendMessage([s EXCEPT !.cmd = <<"desconhecido", "Telegram">>],
                     "Comando nao reconhecido", "")

\* line 349: the log text for a code that is neither CODE_ARM nor CODE_DISARM
unknownRF(code) == "Codigo RF desconhecido recebido: " \o ToString(code)

\* variant: every code other than CODE_ARM disarms
handleRF_elseDisarm(s, code) ==
  CASE code = CODE_ARM -> armarSistema(s, "Controle RF")
    [] OTHER           -> desarmarSistema(s, "Controle RF")

handleRF(s, code) ==
  CASE code = CODE_ARM    -> armarSistema(s, "Controle RF")
    [] code = CODE_DISARM -> desarmarSistema(s, "Controle RF")
    [] OTHER              ->
         logEvento([s EXCEPT !.cmd = <<"desconhecido", "Controle RF">>],
                   unknownRF(code), "")

\* variant: motion fires the alarm whether or not the system is armed
loopMotion_unarmed(s, pir) ==
  LET s0 == [s EXCEPT !.cmd = <<"motion", pir>>]
  IN  IF ~s.disparado /\ pir = HIGH
      THEN dispararAlarme(logEvento(s0, "Movimento detectado", ""))
      ELSE s0

\* variant: motion fires the alarm again while it is already triggered
loopMotion_refire(s, pir) ==
  LET s0 == [s EXCEPT !.cmd = <<"motion", pir>>]
  IN  IF s.ativo /\ pir = HIGH
      THEN dispararAlarme(logEvento(s0, "Movimento detectado", ""))
      ELSE s0

\* variant: the siren follows the sensor and stops when the PIR pin reads LOW
loopMotion_segueSensor(s, pir) ==
  LET s0 == [s EXCEPT !.cmd = <<"motion", pir>>]
  IN  IF s.ativo /\ ~s.disparado /\ pir = HIGH
      THEN dispararAlarme(logEvento(s0, "Movimento detectado", ""))
      ELSE IF s.disparado /\ pir = LOW
           THEN [digitalWrite(s0, LOW) EXCEPT !.disparado = FALSE]
           ELSE s0

\* loop(), lines 150-153: the motion test with the PIR level read in this cycle
loopMotion(s, pir) ==
  LET s0 == [s EXCEPT !.cmd = <<"motion", pir>>]
  IN  IF s.ativo /\ ~s.disparado /\ pir = HIGH
      THEN dispararAlarme(logEvento(s0, "Movimento detectado", ""))
      ELSE s0

\* number of digitalWrite(RELAY_PIN, HIGH) calls in a call list
RECURSIVE SirenOn(_)
SirenOn(f) ==
  IF f = <<>> THEN 0
  ELSE (IF Head(f) = <<"digitalWrite", HIGH, "">> THEN 1 ELSE 0) + SirenOn(Tail(f))

\* the step's result becomes the new program state
Apply(s) ==
  /\ sistemaAtivo' = s.ativo
  /\ alarmeDisparado' = s.disparado
  /\ relay' = s.relay
  /\ fx' = s.fx
  /\ lastCmd' = s.cmd
  /\ sirenes' = IF ~sistemaAtivo /\ s.ativo THEN SirenOn(s.fx) ELSE sirenes + SirenOn(s.fx)
  /\ ciclo' = CASE s.cmd[1] = "motion" -> <<>>
               [] s.cmd[1] \in {"armarSistema", "desarmarSistema"} -> Append(ciclo, s.cmd)
               [] OTHER -> ciclo

\* setup() returns into loop() (line 135); loop() calls its functions in the
\* order of lines 143-146, tests motion last (line 150) and starts again
\* variant: the radio is served before the chat
proximo_radioFirst(p) ==
  CASE p = "setup"          -> "checarWiFi"
    [] p = "checarWiFi"     -> "checarRF"
    [] p = "checarRF"       -> "checarTelegram"
    [] p = "checarTelegram" -> "checarBotao"
    [] p = "checarBotao"    -> "motion"
    [] p = "motion"         -> "checarWiFi"

proximo(p) ==
  CASE p = "setup"          -> "checarWiFi"
    [] p = "checarWiFi"     -> "checarTelegram"
    [] p = "checarTelegram" -> "checarRF"
    [] p = "checarRF"       -> "checarBotao"
    [] p = "checarBotao"    -> "motion"
    [] p = "motion"         -> "checarWiFi"

\* ------------------------------------------------------------------ clock
\* a count of ms that stops one above cap
Sat(x, cap) == IF x > cap THEN cap + 1 ELSE x

\* d ms pass: one clock advance less, and the raw button level is d ms older
Spend(d) ==
  /\ ticks' = IF d > 0 THEN ticks - 1 ELSE ticks
  /\ estavel' = IF estavel + d > debounceDelay THEN debounceDelay + 1 ELSE estavel + d
  /\ desdeMsg' = Sat(desdeMsg + d, msgInterval)
  /\ desdeBotao' = Sat(desdeBotao + d, debounceDelay)

\* variant: the clock is compared without subtracting the last firing
gateDue_noLast(t, last, interval) == Gt32(t, interval)

\* variant: >= in place of >
gateDue_ge(t, last, interval) == ~Lt32(Sub32(t, last), interval)

\* the poll gates of checarWiFi (line 165) and checarTelegram (line 215)
gateDue(t, last, interval) == Gt32(Sub32(t, last), interval)

\* variant: the wait loop does not test the elapsed time
RECURSIVE conectaLoop_noTimeout(_, _, _, _)
conectaLoop_noTimeout(t, start, upAfter, n) ==
  IF n < upAfter
  THEN conectaLoop_noTimeout(Add32(t, connectDelay), start, upAfter, n + 1)
  ELSE [t |-> t, up |-> n >= upAfter, rounds |-> n]

\* conectaWiFi, lines 193-196: the wait loop; upAfter is the number of
\* delay(500) rounds after which WiFi.status() becomes WL_CONNECTED
RECURSIVE conectaLoop(_, _, _, _)
conectaLoop(t, start, upAfter, n) ==
  IF n < upAfter /\ Lt32(Sub32(t, start), connectTimeout)
  THEN conectaLoop(Add32(t, connectDelay), start, upAfter, n + 1)
  ELSE [t |-> t, up |-> n >= upAfter, rounds |-> n]

\* conectaWiFi, lines 187-208: returns the clock, the link, the flag and the log calls
conectaWiFi(s, t, up, anterior, upAfter) ==
  IF ~up
  THEN LET r == conectaLoop(t, t, upAfter, 0)
       IN  IF r.up
           THEN [t |-> r.t, up |-> TRUE, anterior |-> TRUE, rounds |-> r.rounds,
                 s |-> logEvento(s, "WiFi conectado", "")]
           ELSE [t |-> r.t, up |-> FALSE, anterior |-> anterior, rounds |-> r.rounds,
                 s |-> logEvento(s, "Falha na conexao WiFi", "")]
  ELSE [t |-> t, up |-> TRUE, anterior |-> anterior, rounds |-> 0, s |-> s]

\* ------------------------------------------------------------------- Init
Init(advances) ==
  /\ pc = "setup"
  /\ now = U32(0)
  /\ ticks = advances
  /\ sistemaAtivo = FALSE
  /\ alarmeDisparado = FALSE
  /\ relay \in {LOW, HIGH}            \* the pin before setup() drives it (line 109)
  /\ lastMsgTime = U32(0)
  /\ lastWiFiCheck = U32(0)
  /\ wifiConectadoAnterior = FALSE
  /\ ultimoEstado = HIGH
  /\ ultimoDebounce = U32(0)
  /\ wifiUp = FALSE
  /\ botaoPin = HIGH
  /\ estavel = 0
  /\ apertos = 0
  /\ rfAvailable = FALSE
  /\ rfValue = 0
  /\ updates = <<>>
  /\ sent = 0
  /\ last_message_received = 0
  /\ messages = <<>>
  /\ i = 0
  /\ fx = <<>>
  /\ lastCmd = NoCmd
  /\ handled = <<>>
  /\ sirenes = 0
  /\ lastFetch = <<>>
  /\ ciclo = <<>>
  /\ desdeMsg = 0
  /\ desdeWiFi = 0
  /\ desdeBotao = 0

\* ------------------------------------------------------------------ setup
Setup ==
  /\ pc = "setup"
  /\ \E upAfter \in ConnectAfter :
       LET c == conectaWiFi(digitalWrite(Ctl, LOW), now, wifiUp, wifiConectadoAnterior, upAfter)
       IN  /\ c.rounds > 0 => ticks > 0
           /\ Spend(c.rounds * connectDelay)
           /\ desdeWiFi' = Sat(desdeWiFi + c.rounds * connectDelay, wifiCheckInterval)
           /\ now' = c.t
           /\ wifiUp' = c.up
           /\ wifiConectadoAnterior' = c.anterior
           /\ Apply(logEvento(c.s, "Sistema iniciado e configurado", ""))
  /\ pc' = proximo("setup")
  /\ UNCHANGED <<lastMsgTime, lastWiFiCheck, ultimoEstado, ultimoDebounce, botaoPin, apertos,
                 rfAvailable, rfValue, updates, sent, last_message_received,
                 messages, i, handled, lastFetch>>

\* ------------------------------------------------------------- checarWiFi
ChecarWiFi ==
  /\ pc = "checarWiFi"
  /\ IF gateDue(now, lastWiFiCheck, wifiCheckInterval)
     THEN \E upAfter \in ConnectAfter :
            LET t1 == now                  \* millis() of line 166, read in the same ms as line 165
                s0 == IF ~wifiUp
                      THEN (IF wifiConectadoAnterior
                            THEN logEvento(Ctl, "Conexao Wi-Fi perdida", "") ELSE Ctl)
                      ELSE (IF ~wifiConectadoAnterior
                            THEN sendMessage(logEvento(Ctl, "Conexao Wi-Fi restabelecida", ""),
                                             "Conexao Wi-Fi restabelecida", "")
                            ELSE Ctl)
                c  == IF ~wifiUp
                      THEN conectaWiFi(s0, t1, wifiUp, FALSE, upAfter)
                      ELSE [t |-> t1, up |-> TRUE, anterior |-> TRUE, rounds |-> 0, s |-> s0]
            IN  /\ c.rounds > 0 => ticks > 0
                /\ Spend(c.rounds * connectDelay)
                /\ desdeWiFi' = Sat(c.rounds * connectDelay, wifiCheckInterval)
                /\ lastWiFiCheck' = t1
                /\ now' = c.t
                /\ wifiUp' = c.up
                /\ wifiConectadoAnterior' = c.anterior
                /\ Apply(c.s)
     ELSE /\ Apply(Ctl)
          /\ UNCHANGED <<desdeMsg, desdeWiFi, desdeBotao, now, ticks, estavel, lastWiFiCheck, wifiUp, wifiConectadoAnterior>>
  /\ pc' = proximo("checarWiFi")
  /\ UNCHANGED <<lastMsgTime, ultimoEstado, ultimoDebounce, botaoPin, apertos,
                 rfAvailable, rfValue, updates, sent, last_message_received, messages, i,
                 handled, lastFetch>>

\* ---------------------------------------------------------- checarTelegram
Min(a, b) == IF a < b THEN a ELSE b
Max(a, b) == IF a > b THEN a ELSE b

\* the updates the chat server still holds once offset is requested: an
\* update is confirmed, and forgotten, when a higher offset is requested
pending(offset) == SelectSeq(updates, LAMBDA u : u.update_id >= offset)

\* bot.getUpdates(offset): the n oldest updates whose id is at least offset
getUpdates(offset, n) == SubSeq(pending(offset), 1, n)

\* variant: the cursor itself is requested again
nextOffset_same(last) == last

\* line 217: the offset passed to getUpdates
nextOffset(last) == last + 1

numNewMessages == Len(messages)

\* lines 215-217: the gate and the fetch
ChecarTelegram ==
  /\ pc = "checarTelegram"
  /\ IF gateDue(now, lastMsgTime, msgInterval) /\ wifiUp
     THEN \E n \in 0..Min(MaxBatch, Len(pending(nextOffset(last_message_received)))) :
            LET batch == getUpdates(nextOffset(last_message_received), n)
            IN  /\ messages' = batch
                /\ updates' = pending(nextOffset(last_message_received))
                /\ last_message_received' =
                     IF n > 0 THEN batch[n].update_id ELSE last_message_received
                /\ i' = 0
                /\ lastFetch' = now
                /\ pc' = "forMessages"
     ELSE /\ pc' = proximo("checarTelegram")
          /\ UNCHANGED <<messages, last_message_received, i, lastFetch, updates>>
  /\ Apply(Ctl)
  /\ UNCHANGED <<desdeMsg, desdeWiFi, desdeBotao, now, ticks, lastMsgTime, lastWiFiCheck, wifiConectadoAnterior, ultimoEstado,
                 ultimoDebounce, wifiUp, botaoPin, estavel, apertos, rfAvailable, rfValue,
                 handled, sent>>

\* lines 219-222: one round of the for loop, or its exit
ForMessages ==
  /\ pc = "forMessages"
  /\ IF i < numNewMessages
     THEN /\ \E arquivo \in LogFiles :
               Apply(handleNewMessage(Ctl, messages[i + 1].text, arquivo))
          /\ handled' = Append(handled, messages[i + 1].update_id)
          /\ i' = i + 1
          /\ UNCHANGED <<pc, lastMsgTime, desdeMsg, messages>>
     ELSE /\ lastMsgTime' = now
          /\ desdeMsg' = 0
          /\ pc' = proximo("checarTelegram")
          /\ Apply(Ctl)
          \* the loop is over: i and numNewMessages go out of scope, and
          \* bot.messages is not read again before the next getUpdates
          /\ i' = 0
          /\ messages' = <<>>
          /\ UNCHANGED handled
  /\ UNCHANGED <<desdeWiFi, desdeBotao, now, ticks, lastWiFiCheck, wifiConectadoAnterior, ultimoEstado,
                 ultimoDebounce, wifiUp, botaoPin, estavel, apertos, rfAvailable, rfValue,
                 updates, sent, last_message_received, lastFetch>>

\* --------------------------------------------------------------- checarRF
\* variant: line 234 left out, the code stays available
ChecarRF_noReset ==
  /\ pc = "checarRF"
  /\ IF rfAvailable
     THEN /\ Apply(handleRF(Ctl, rfValue))
          /\ UNCHANGED <<rfAvailable, rfValue>>
     ELSE /\ Apply(Ctl)
          /\ UNCHANGED <<rfAvailable, rfValue>>
  /\ pc' = proximo("checarRF")
  /\ UNCHANGED <<desdeMsg, desdeWiFi, desdeBotao, now, ticks, lastMsgTime, lastWiFiCheck, wifiConectadoAnterior, ultimoEstado,
                 ultimoDebounce, wifiUp, botaoPin, estavel, apertos, updates, sent,
                 last_message_received, messages, i, handled, lastFetch>>

ChecarRF ==
  /\ pc = "checarRF"
  /\ IF rfAvailable
     THEN /\ Apply(handleRF(Ctl, rfValue))
          /\ rfAvailable' = FALSE
          /\ rfValue' = 0
     ELSE /\ Apply(Ctl)
          /\ UNCHANGED <<rfAvailable, rfValue>>
  /\ pc' = proximo("checarRF")
  /\ UNCHANGED <<desdeMsg, desdeWiFi, desdeBotao, now, ticks, lastMsgTime, lastWiFiCheck, wifiConectadoAnterior, ultimoEstado,
                 ultimoDebounce, wifiUp, botaoPin, estavel, apertos, updates, sent,
                 last_message_received, messages, i, handled, lastFetch>>

\* ------------------------------------------------------------ checarBotao
\* variant: the debounce time is not tested
botaoPress_noDebounce(leitura, ultimo, debounce, t) == leitura = LOW /\ ultimo = HIGH

\* lines 252-254: the level was stable for the debounce time and went HIGH -> LOW
botaoPress(leitura, ultimo, debounce, t) ==
  Gt32(Sub32(t, debounce), debounceDelay) /\ leitura = LOW /\ ultimo = HIGH

\* variant: a press always arms
botaoToggle_sempreArma(s) == armarSistema(s, "Botao fisico")

\* lines 256-260: a press disarms an armed system and arms a disarmed one
botaoToggle(s) ==
  IF s.ativo THEN desarmarSistema(s, "Botao fisico") ELSE armarSistema(s, "Botao fisico")

ChecarBotao ==
  /\ pc = "checarBotao"
  /\ \E slip \in {0, 1} :        \* ms between the clock reads of lines 248 and 252
       LET leitura == botaoPin
           ud == IF leitura # ultimoEstado THEN now ELSE ultimoDebounce
           t2 == IF leitura # ultimoEstado THEN Add32(now, slip) ELSE now
       IN  /\ ultimoDebounce' = ud
           /\ desdeBotao' = IF leitura # ultimoEstado THEN 0 ELSE desdeBotao
           /\ IF botaoPress(leitura, ultimoEstado, ud, t2)
              THEN /\ Apply(botaoToggle(Ctl))
                   /\ apertos' = apertos + 1
              ELSE /\ Apply(Ctl)
                   /\ apertos' = apertos
           /\ ultimoEstado' = leitura
  /\ pc' = proximo("checarBotao")
  /\ UNCHANGED <<desdeMsg, desdeWiFi, now, ticks, estavel, lastMsgTime, lastWiFiCheck, wifiConectadoAnterior,
                 wifiUp, botaoPin, rfAvailable, rfValue, updates, sent, last_message_received,
                 messages, i, handled, lastFetch>>

\* ------------------------------------------------- loop(), lines 148-153
LoopMotion ==
  /\ pc = "motion"
  /\ \E pir \in {HIGH, LOW} : Apply(loopMotion(Ctl, pir))
  /\ pc' = proximo("motion")
  /\ UNCHANGED <<desdeMsg, desdeWiFi, desdeBotao, now, ticks, lastMsgTime, lastWiFiCheck, wifiConectadoAnterior, ultimoEstado,
                 ultimoDebounce, wifiUp, botaoPin, estavel, apertos, rfAvailable, rfValue,
                 updates, sent, last_message_received, messages, i, handled, lastFetch>>

\* ------------------------------------------------------------ environment
\* Each input is read by one statement only, so a change of the input is
\* modelled where that statement is about to read it: any earlier change is
\* seen by the program in the same way.
Tick(ds) ==
  /\ pc \in {"checarWiFi", "checarTelegram", "forMessages", "checarBotao"}
  /\ ticks > 0
  /\ \E d \in ds : /\ now' = Add32(now, d)
                  /\ Spend(d)
                  /\ desdeWiFi' = Sat(desdeWiFi + d, wifiCheckInterval)
  /\ UNCHANGED <<pc, sistemaAtivo, alarmeDisparado, relay, lastMsgTime, lastWiFiCheck, apertos,
                 wifiConectadoAnterior, ultimoEstado, ultimoDebounce, wifiUp, botaoPin,
                 rfAvailable, rfValue, updates, sent, last_message_received,
                 messages, i, fx, lastCmd, handled, sirenes, ciclo, lastFetch>>

BotaoMuda ==
  /\ pc = "checarBotao"
  /\ botaoPin' = IF botaoPin = HIGH THEN LOW ELSE HIGH
  /\ estavel' = 0
  /\ apertos' = 0
  /\ UNCHANGED <<desdeMsg, desdeWiFi, desdeBotao, pc, now, ticks, sistemaAtivo, alarmeDisparado, relay, lastMsgTime,
                 lastWiFiCheck, wifiConectadoAnterior, ultimoEstado, ultimoDebounce, wifiUp,
                 rfAvailable, rfValue, updates, sent, last_message_received, messages, i, fx,
                 lastCmd, handled, sirenes, ciclo, lastFetch>>

WiFiMuda ==
  /\ pc \in {"checarWiFi", "checarTelegram"}
  /\ wifiUp' = ~wifiUp
  /\ UNCHANGED <<desdeMsg, desdeWiFi, desdeBotao, pc, now, ticks, sistemaAtivo, alarmeDisparado, relay, lastMsgTime, apertos,
                 lastWiFiCheck, wifiConectadoAnterior, ultimoEstado, ultimoDebounce, botaoPin,
                 estavel, rfAvailable, rfValue, updates, sent, last_message_received,
                 messages, i, fx, lastCmd, handled, sirenes, ciclo, lastFetch>>

RFRecebe ==
  /\ pc = "checarRF"
  /\ \E code \in RFCodes : rfValue' = code
  /\ rfAvailable' = TRUE
  /\ UNCHANGED <<desdeMsg, desdeWiFi, desdeBotao, pc, now, ticks, sistemaAtivo, alarmeDisparado, relay, lastMsgTime,
                 lastWiFiCheck, wifiConectadoAnterior, ultimoEstado, ultimoDebounce, wifiUp,
                 botaoPin, estavel, apertos, updates, sent, last_message_received, messages, i, fx,
                 lastCmd, handled, sirenes, ciclo, lastFetch>>

UsuarioEnvia(texts, max) ==
  /\ pc = "checarTelegram"
  /\ gateDue(now, lastMsgTime, msgInterval) /\ wifiUp
  /\ sent < max
  /\ \E text \in texts :
       updates' = Append(updates, [update_id |-> sent + 1, text |-> text])
  /\ sent' = sent + 1
  /\ UNCHANGED <<desdeMsg, desdeWiFi, desdeBotao, pc, now, ticks, sistemaAtivo, alarmeDisparado, relay, lastMsgTime,
                 lastWiFiCheck, wifiConectadoAnterior, ultimoEstado, ultimoDebounce, wifiUp,
                 botaoPin, estavel, apertos, rfAvailable, rfValue, last_message_received,
                 messages, i, fx, lastCmd, handled, sirenes, ciclo, lastFetch>>

\* setup() and one statement of loop()
Loop ==
  \/ Setup
  \/ ChecarWiFi
  \/ ChecarTelegram
  \/ ForMessages
  \/ ChecarRF
  \/ ChecarBotao
  \/ LoopMotion

\* every source of commands; the clock in steps of a poll interval
Next ==
  \/ Loop
  \/ Tick(Coarse)
  \/ BotaoMuda
  \/ RFRecebe
  \/ UsuarioEnvia(Texts, MaxMsgs)

Spec == Init(MaxRounds) /\ [][Next]_vars

\* the clock in fine steps, the link and the button
NextTempo ==
  \/ Loop
  \/ Tick(Deltas)
  \/ WiFiMuda
  \/ BotaoMuda

SpecTempo == Init(MaxTicks) /\ [][NextTempo]_vars

\* the chat channel over several polls
NextChat ==
  \/ Loop
  \/ Tick(Coarse)
  \/ WiFiMuda
  \/ UsuarioEnvia({"/armar", "/oi"}, MaxChat)

SpecChat == Init(MaxPolls) /\ [][NextChat]_vars

\* loop() after millis() has counted for 49.7 days: the last pass ended `back`
\* ms before the counter wraps; the system is idle and disarmed, the link is
\* up, the chat was last polled 1500 ms, the link last checked 8500 ms and the
\* button last seen changing (released) 40 ms before
WrapBack == {30, 1000, 1525}

\* the counter `back` ms before it wraps, less d ms
BeforeWrap(back, d) == Add32(<<Half - 1, Half - 10000>>, 10000 - back - d)

InitVolta ==
  /\ pc = "checarWiFi"
  /\ \E back \in WrapBack :
       /\ now = BeforeWrap(back, 0)
       /\ lastMsgTime = BeforeWrap(back, 1500)
       /\ lastWiFiCheck = BeforeWrap(back, 8500)
       /\ ultimoDebounce = BeforeWrap(back, 40)
  /\ ticks = MaxTicks
  /\ sistemaAtivo = FALSE
  /\ alarmeDisparado = FALSE
  /\ relay = LOW
  /\ desdeMsg = 1500
  /\ lastFetch = lastMsgTime
  /\ desdeWiFi = 8500
  /\ wifiConectadoAnterior = TRUE
  /\ wifiUp = TRUE
  /\ ultimoEstado = HIGH
  /\ botaoPin = HIGH
  /\ desdeBotao = 40
  /\ estavel = 40
  /\ apertos = 0
  /\ rfAvailable = FALSE
  /\ rfValue = 0
  /\ updates = <<>>
  /\ sent = 0
  /\ last_message_received = 0
  /\ messages = <<>>
  /\ i = 0
  /\ fx = <<>>
  /\ lastCmd = <<"motion", LOW>>
  /\ handled = <<>>
  /\ sirenes = 0
  /\ ciclo = <<>>

\* the statements of loop() without setup()
Passo ==
  \/ ChecarWiFi
  \/ ChecarTelegram
  \/ ForMessages
  \/ ChecarRF
  \/ ChecarBotao
  \/ LoopMotion

\* the clock in fine steps across the wrap, the link and the button
NextVolta ==
  \/ Passo
  \/ Tick(Deltas)
  \/ WiFiMuda
  \/ BotaoMuda

SpecVolta == InitVolta /\ [][NextVolta]_vars

\* ------------------------------------------------------------- type check
TypeOK ==
  /\ pc \in {"setup", "checarWiFi", "checarTelegram", "forMessages", "checarRF",
             "checarBotao", "motion"}
  /\ now \in (0..(Half - 1)) \X (0..(Half - 1))
  /\ ticks \in Nat
  /\ sistemaAtivo \in BOOLEAN /\ alarmeDisparado \in BOOLEAN
  /\ relay \in {HIGH, LOW}
  /\ sent <= MaxChat

\* ================================================================ claims
\* a statement of setup() or loop() ran (the environment leaves pc and i alone)
ProgramStep == pc' # pc \/ i' # i

\* the calls desarmarSistema makes, in order
DisarmCalls(origem) ==
  << <<"digitalWrite", LOW, "">>, <<"sendMessage", "DESARMADO", origem>>,
     <<"logEvento", "DESARMADO", origem>> >>

\* how many times the call c occurs in the call sequence f
CountCall(f, c) == Cardinality({k \in 1..Len(f) : f[k] = c})

\* C1: in every reachable state, alarmeDisparado implies sistemaAtivo.
C1_TriggeredImpliesArmed == alarmeDisparado => sistemaAtivo

\* the system was triggered and has just been disarmed
C1_Witness ==
  /\ lastCmd[1] = "desarmarSistema"
  /\ sirenes = 1
  /\ ~sistemaAtivo
  /\ ~alarmeDisparado

\* C2 (as claimed): once a poll has already seen the button LOW and the level
\* has stayed LOW for more than the debounce time, one command has been issued
\* for the press.
C2_OnePressPerPush ==
  [][(/\ pc = "checarBotao" /\ pc' # pc
      /\ botaoPin = LOW /\ ultimoEstado = LOW
      /\ estavel > debounceDelay
      /\ Gt32(Sub32(now, ultimoDebounce), debounceDelay))
     => apertos' = 1]_vars

\* C3: checarBotao issues a command only for a level that is LOW and has been
\* constant for the debounce time, and at most one for each press.
C3_NoPressUndebounced ==
  [][(pc = "checarBotao" /\ pc' # pc /\ (apertos' # apertos \/ lastCmd'[2] = "Botao fisico"))
     => (botaoPin = LOW /\ estavel >= debounceDelay /\ apertos = 0)]_vars

\* a poll sampled a LOW level younger than the debounce time and issued nothing
C3_Witness ==
  /\ pc = "motion"
  /\ botaoPin = LOW /\ ultimoEstado = LOW
  /\ estavel > 0 /\ estavel < debounceDelay
  /\ apertos = 0
  /\ lastCmd = NoCmd

\* C4: an Arm handled while armed changes neither flag nor the relay and makes
\* one call only, the "already armed" notification.
C4_ArmWhileArmed ==
  [][(ProgramStep /\ sistemaAtivo /\ lastCmd'[1] = "armarSistema")
     => (/\ sistemaAtivo'
         /\ alarmeDisparado' = alarmeDisparado
         /\ relay' = relay
         /\ fx' = << <<"sendMessage", "ja armado", "">> >>)]_vars

\* an Arm was ignored while the siren was on
C4_Witness ==
  /\ lastCmd[1] = "armarSistema"
  /\ fx = << <<"sendMessage", "ja armado", "">> >>
  /\ alarmeDisparado /\ relay = HIGH

\* C5: a motion step taken while disarmed writes no relay, leaves
\* alarmeDisparado false and makes no call, whatever the PIR level.
C5_NoMotionWhileDisarmed ==
  [][(pc = "motion" /\ pc' # pc /\ ~sistemaAtivo)
     => (relay' = relay /\ ~alarmeDisparado' /\ fx' = <<>>)]_vars

\* the PIR pin read HIGH while disarmed
C5_Witness ==
  /\ lastCmd = <<"motion", HIGH>>
  /\ ~sistemaAtivo /\ ~alarmeDisparado
  /\ relay = LOW /\ fx = <<>>

\* C6: between arming and the next disarm the siren is switched on at most
\* once, the alarm flag says whether it was, arming starts untriggered, a HIGH
\* reading while armed and untriggered switches the siren on and notifies once,
\* and a reading while triggered makes no call.
C6_TriggerOnce ==
  [][/\ sirenes' <= 1
     /\ sistemaAtivo' => (alarmeDisparado' <=> sirenes' = 1)
     /\ (~sistemaAtivo /\ sistemaAtivo') => ~alarmeDisparado'
     /\ (pc = "motion" /\ sistemaAtivo /\ ~alarmeDisparado /\ lastCmd' = <<"motion", HIGH>>)
          => (/\ alarmeDisparado' /\ relay' = HIGH
              /\ CountCall(fx', <<"digitalWrite", HIGH, "">>) = 1
              /\ CountCall(fx', <<"sendMessage", "ALERTA", "">>) = 1)
     /\ (pc = "motion" /\ pc' # pc /\ alarmeDisparado) => fx' = <<>>]_vars

\* a HIGH reading while already triggered made no call
C6_Witness ==
  /\ lastCmd = <<"motion", HIGH>>
  /\ alarmeDisparado /\ sirenes = 1
  /\ fx = <<>>

\* C7: a Disarm handled while armed writes the relay LOW, notifies and logs,
\* in that order and once each, and leaves both flags false.
C7_DisarmEffects ==
  [][(ProgramStep /\ sistemaAtivo /\ lastCmd'[1] = "desarmarSistema")
     => (/\ lastCmd'[2] \in Origens
         /\ fx' = DisarmCalls(lastCmd'[2])
         /\ relay' = LOW
         /\ ~sistemaAtivo' /\ ~alarmeDisparado')]_vars

\* a Disarm from the chat ended a triggered episode
C7_Witness ==
  /\ lastCmd = <<"desarmarSistema", "Telegram">>
  /\ fx = DisarmCalls("Telegram")
  /\ sirenes = 1
  /\ relay = LOW /\ ~sistemaAtivo

\* C8: a fetch is never made within msgInterval of the fetch before it, and a
\* call of checarTelegram that does not fetch leaves lastMsgTime unchanged.
C8_NoFlood ==
  [][/\ (pc = "checarTelegram" /\ pc' = "forMessages")
          => (lastFetch = <<>> \/ ~Lt32(Sub32(now, lastFetch), msgInterval))
     /\ (pc = "checarTelegram" /\ pc' = "checarRF") => lastMsgTime' = lastMsgTime]_vars

\* a second fetch has been made
C8_Witness ==
  /\ pc = "forMessages"
  /\ lastFetch = now
  /\ lastMsgTime # U32(0)

\* C9 (as claimed): with the link up the chat gate is due on its first firing
\* and whenever at least msgInterval has elapsed, and only then.
C9_GateAsClaimed ==
  [][(pc = "checarTelegram" /\ pc' # pc /\ wifiUp)
     => (pc' = "forMessages"
           <=> (lastFetch = <<>> \/ ~Lt32(Sub32(now, lastMsgTime), msgInterval)))]_vars

\* C9 (amended): the chat gate is due exactly when the link is up and more
\* than msgInterval has elapsed since lastMsgTime, the connectivity gate
\* exactly when more than wifiCheckInterval has elapsed since lastWiFiCheck;
\* lastMsgTime is the clock at the end of the batch.
C9_GateStrict ==
  [][/\ (pc = "checarTelegram" /\ pc' # pc)
          => (pc' = "forMessages"
                <=> (wifiUp /\ Gt32(Sub32(now, lastMsgTime), msgInterval)))
     /\ (pc = "checarWiFi" /\ pc' # pc)
          => (lastWiFiCheck' # lastWiFiCheck
                <=> Gt32(Sub32(now, lastWiFiCheck), wifiCheckInterval))
     /\ (pc = "forMessages" /\ pc' # pc) => lastMsgTime' = now]_vars

\* a call made exactly msgInterval after the last batch, link up, did not fetch
C9_Witness ==
  /\ pc = "checarRF"
  /\ wifiUp
  /\ lastFetch # <<>>
  /\ Sub32(now, lastMsgTime) = U32(msgInterval)

\* C10: the ids handed to handleNewMessage are 1, 2, 3, ... in order, each
\* once; a batch is handled before the poll ends; the cursor never decreases.
C10_EachOnceInOrder ==
  [][/\ \A k \in 1..Len(handled') : handled'[k] = k
     /\ Len(handled') <= last_message_received'
     /\ pc' # "forMessages" => Len(handled') = last_message_received'
     /\ last_message_received' >= last_message_received]_vars

\* three messages were handled in at least two polls
C10_Witness ==
  /\ handled = <<1, 2, 3>>
  /\ last_message_received = 3
  /\ pc = "checarRF"

\* the flags, the relay and the calls a handler leaves behind
Outcome(s) == <<s.ativo, s.disparado, s.relay, s.fx>>

\* the same four values after the step
OutcomeNext == <<sistemaAtivo', alarmeDisparado', relay', fx'>>

\* C11: a received code that is neither CODE_ARM nor CODE_DISARM changes
\* neither flag nor the relay and makes one call, a log line holding the code;
\* CODE_ARM is handled as an Arm and CODE_DISARM as a Disarm from "Controle RF".
C11_UnknownCodeOnlyLogs ==
  [][(pc = "checarRF" /\ pc' # pc /\ rfAvailable)
     => (/\ rfValue \notin {CODE_ARM, CODE_DISARM}
            => (/\ sistemaAtivo' = sistemaAtivo
                /\ alarmeDisparado' = alarmeDisparado
                /\ relay' = relay
                /\ fx' = << <<"logEvento", unknownRF(rfValue), "">> >>)
         /\ rfValue = CODE_ARM
            => (/\ lastCmd' = <<"armarSistema", "Controle RF">>
                /\ OutcomeNext = Outcome(armarSistema(Ctl, "Controle RF")))
         /\ rfValue = CODE_DISARM
            => (/\ lastCmd' = <<"desarmarSistema", "Controle RF">>
                /\ OutcomeNext = Outcome(desarmarSistema(Ctl, "Controle RF"))))]_vars

\* an unknown code was received while the siren was on, and only logged
C11_Witness ==
  /\ lastCmd = <<"desconhecido", "Controle RF">>
  /\ fx = << <<"logEvento", unknownRF(42), "">> >>
  /\ sistemaAtivo /\ alarmeDisparado /\ relay = HIGH

\* place of a source in the order loop() serves them
Rank(origem) ==
  CASE origem = "Telegram"     -> 1
    [] origem = "Controle RF"  -> 2
    [] origem = "Botao fisico" -> 3
    [] OTHER                   -> 4

\* C12: a pass of loop() serves chat, radio and button in that order and tests
\* motion last; a command is dispatched only by the step of its source and all
\* commands of a pass are applied in that order, so the motion test sees the
\* state the last of them left: after a Disarm the pass ends disarmed with the
\* siren off whatever the PIR level, after an Arm with PIR HIGH it ends triggered.
C12_SourceOrder ==
  [][/\ ProgramStep
          => /\ pc = "checarWiFi"     => pc' = "checarTelegram"
             /\ pc = "checarTelegram" => pc' \in {"forMessages", "checarRF"}
             /\ pc = "forMessages"    => pc' \in {"forMessages", "checarRF"}
             /\ pc = "checarRF"       => pc' = "checarBotao"
             /\ pc = "checarBotao"    => pc' = "motion"
             /\ pc = "motion"         => pc' = "checarWiFi"
             /\ lastCmd'[2] = "Telegram"     => pc = "forMessages"
             /\ lastCmd'[2] = "Controle RF"  => pc = "checarRF"
             /\ lastCmd'[2] = "Botao fisico" => pc = "checarBotao"
             /\ lastCmd'[1] = "motion"       => pc = "motion"
     /\ \A j, k \in 1..Len(ciclo') :
          j < k => /\ Rank(ciclo'[j][2]) <= Rank(ciclo'[k][2])
                   /\ ciclo'[j][2] = ciclo'[k][2] => ciclo'[j][2] = "Telegram"
     /\ (pc = "motion" /\ pc' # pc /\ ciclo # <<>>)
          => /\ ciclo[Len(ciclo)][1] = "desarmarSistema"
                  => (~sistemaAtivo' /\ ~alarmeDisparado' /\ relay' = LOW /\ fx' = <<>>)
             /\ (ciclo[Len(ciclo)][1] = "armarSistema" /\ lastCmd' = <<"motion", HIGH>>)
                  => (sistemaAtivo' /\ alarmeDisparado' /\ relay' = HIGH)]_vars

\* an Arm from the chat and a Disarm from the radio were applied in one pass
C12_Witness ==
  /\ pc = "motion"
  /\ ciclo = << <<"armarSistema", "Telegram">>, <<"desarmarSistema", "Controle RF">> >>
  /\ ~sistemaAtivo /\ relay = LOW

\* a motion step that found the system armed, untriggered and the PIR pin HIGH
MotionFires ==
  /\ pc = "motion" /\ pc' # pc
  /\ sistemaAtivo /\ ~alarmeDisparado
  /\ lastCmd' = <<"motion", HIGH>>

\* C13 (as claimed): the motion that triggers the alarm makes exactly the calls
\* relay HIGH, notification, one log line, in that order.
C13_ThreeEffects ==
  [][MotionFires
     => fx' = << <<"digitalWrite", HIGH, "">>, <<"sendMessage", "ALERTA", "">>,
                 <<"logEvento", "Alarme efetivamente disparado", "">> >>]_vars

\* C13 (amended): the motion that triggers the alarm makes exactly the calls
\* log line "Movimento detectado", relay HIGH, notification, log line "Alarme
\* efetivamente disparado", in that order, and leaves the system triggered.
C13_LogThenThreeEffects ==
  [][MotionFires
     => (/\ fx' = << <<"logEvento", "Movimento detectado", "">>,
                     <<"digitalWrite", HIGH, "">>,
                     <<"sendMessage", "ALERTA", "">>,
                     <<"logEvento", "Alarme efetivamente disparado", "">> >>
         /\ sistemaAtivo' /\ alarmeDisparado' /\ relay' = HIGH)]_vars

\* the alarm has just been triggered by motion
C13_Witness ==
  /\ lastCmd = <<"motion", HIGH>>
  /\ Len(fx) = 4
  /\ fx[2] = <<"digitalWrite", HIGH, "">>
  /\ alarmeDisparado /\ relay = HIGH

\* the step leaves both flags and the relay as they were
FlagsKept ==
  /\ sistemaAtivo' = sistemaAtivo
  /\ alarmeDisparado' = alarmeDisparado
  /\ relay' = relay

\* C14: a chat text equal to "/armar" is handled as an Arm from "Telegram",
\* "/desarmar" as a Disarm, "/status" as a status query answered with the flags
\* as they are when it is handled, "/logs" as a log request and any other text
\* as unrecognized; the last three change neither flag nor the relay and make
\* one call to the chat.
C14_ChatTextMapping ==
  [][(pc = "forMessages" /\ i < Len(messages) /\ i' = i + 1)
     => LET text == messages[i + 1].text
        IN  /\ text = "/armar"
               => (/\ lastCmd' = <<"armarSistema", "Telegram">>
                   /\ OutcomeNext = Outcome(armarSistema(Ctl, "Telegram")))
            /\ text = "/desarmar"
               => (/\ lastCmd' = <<"desarmarSistema", "Telegram">>
                   /\ OutcomeNext = Outcome(desarmarSistema(Ctl, "Telegram")))
            /\ text = "/status"
               => (/\ lastCmd' = <<"status", "Telegram">>
                   /\ FlagsKept
                   /\ fx' = << <<"sendMessage",
                                 IF sistemaAtivo THEN "ARMADO" ELSE "DESARMADO",
                                 IF alarmeDisparado THEN "SIM" ELSE "NAO">> >>)
            /\ text = "/logs"
               => (/\ lastCmd' = <<"logs", "Telegram">>
                   /\ FlagsKept
                   /\ Len(fx') = 1
                   /\ fx'[1][1] \in {"sendMessage", "sendDocument"})
            /\ text \notin {"/armar", "/desarmar", "/status", "/logs"}
               => (/\ lastCmd' = <<"desconhecido", "Telegram">>
                   /\ FlagsKept
                   /\ fx' = << <<"sendMessage", "Comando nao reconhecido", "">> >>)]_vars

\* /status was answered while the siren was on
C14_Witness ==
  /\ lastCmd = <<"status", "Telegram">>
  /\ fx = << <<"sendMessage", "ARMADO", "SIM">> >>
  /\ sistemaAtivo /\ alarmeDisparado /\ relay = HIGH

\* a call list without the origem of each call
Kinds(f) == [k \in 1..Len(f) |-> <<f[k][1], f[k][2]>>]

\* the outcome of a handler with the origem taken out of its calls
Anon(s) == <<s.ativo, s.disparado, s.relay, Kinds(s.fx)>>

\* the origem appears in the calls of a handler only as their third field
Tagged(f, o) == \A k \in 1..Len(f) : f[k][3] \in {o, ""}

\* C15: whenever an Arm or a Disarm is dispatched, its outcome is the one the
\* same command has in that state from each of the three sources: the same
\* flags, the same relay level and the same calls in the same order, the
\* origem in the text apart, whatever was dispatched before it.
C15_SourceIndependence ==
  [][(ProgramStep /\ lastCmd'[1] \in {"armarSistema", "desarmarSistema"})
     => LET from(o) == IF lastCmd'[1] = "armarSistema"
                       THEN armarSistema(Ctl, o) ELSE desarmarSistema(Ctl, o)
        IN  \A o \in Origens :
              /\ <<sistemaAtivo', alarmeDisparado', relay', Kinds(fx')>> = Anon(from(o))
              /\ Tagged(from(o).fx, o)
              /\ from(o).cmd = <<lastCmd'[1], o>>]_vars

\* the chat disarmed the system and the radio armed it again in the same pass
C15_Witness ==
  /\ pc = "checarBotao"
  /\ ciclo = << <<"desarmarSistema", "Telegram">>, <<"armarSistema", "Controle RF">> >>
  /\ sirenes = 0
  /\ sistemaAtivo /\ ~alarmeDisparado /\ relay = LOW
  /\ fx = << <<"sendMessage", "ARMADO", "Controle RF">>,
             <<"logEvento", "ARMADO", "Controle RF">> >>

\* the last call of a call list is the log line msg
EndsWithLog(f, msg) == f # <<>> /\ f[Len(f)] = <<"logEvento", msg, "">>

\* C16: a step that calls conectaWiFi returns to the next statement within
\* connectTimeout on the clock; an attempt that fails has taken exactly
\* connectTimeout; a connectivity check that is due with the link down makes
\* an attempt; with the link up conectaWiFi waits for nothing and calls nothing.
C16_ConnectBounded ==
  [][(pc \in {"setup", "checarWiFi"} /\ pc' # pc)
     => (/\ pc' = proximo(pc)
         /\ ~Gt32(Sub32(now', now), connectTimeout)
         /\ EndsWithLog(fx', "Falha na conexao WiFi")
              => (~wifiUp' /\ Sub32(now', now) = U32(connectTimeout))
         /\ (pc = "checarWiFi" /\ ~wifiUp /\ gateDue(now, lastWiFiCheck, wifiCheckInterval))
              => (\/ EndsWithLog(fx', "Falha na conexao WiFi")
                  \/ (EndsWithLog(fx', "WiFi conectado") /\ wifiUp'))
         /\ (pc = "checarWiFi" /\ wifiUp) => now' = now
         /\ \A u \in ConnectAfter :
              LET c == conectaWiFi(Ctl, now, TRUE, wifiConectadoAnterior, u)
              IN  c.t = now /\ c.rounds = 0 /\ c.up /\ c.s.fx = <<>>)]_vars

\* the attempt of setup() failed and the first connectivity check failed again
C16_Witness ==
  /\ pc = "checarTelegram"
  /\ ~wifiUp
  /\ EndsWithLog(fx, "Falha na conexao WiFi")
  /\ lastWiFiCheck = U32(connectTimeout)
  /\ now = U32(2 * connectTimeout)

\* C17: checarRF handles a code only when the receiver reports one, handles it
\* with one call of handleRF and clears the receiver in the same step; without
\* a code it does nothing; only the receiver makes a code available again.
C17_CodeHandledOnce ==
  [][/\ (pc = "checarRF" /\ pc' # pc /\ rfAvailable)
          => (/\ ~rfAvailable'
              /\ lastCmd'[2] = "Controle RF"
              /\ OutcomeNext = Outcome(handleRF(Ctl, rfValue)))
     /\ (pc = "checarRF" /\ pc' # pc /\ ~rfAvailable)
          => (FlagsKept /\ fx' = <<>> /\ lastCmd' = NoCmd /\ ~rfAvailable')
     /\ (ProgramStep /\ lastCmd'[2] = "Controle RF") => (pc = "checarRF" /\ rfAvailable)
     /\ (~rfAvailable /\ rfAvailable') => ~ProgramStep]_vars

\* armed by the radio in an earlier pass; in this pass checarRF found no code
C17_Witness ==
  /\ pc = "checarBotao"
  /\ sistemaAtivo
  /\ handled = <<>>
  /\ ciclo = <<>>
  /\ lastCmd = NoCmd
  /\ ~rfAvailable

C19_DisarmWhileDisarmed ==
  [][(ProgramStep /\ ~sistemaAtivo /\ lastCmd'[1] = "desarmarSistema")
     => (/\ FlagsKept
         /\ ~sistemaAtivo' /\ ~alarmeDisparado' /\ relay' = LOW
         /\ lastCmd'[2] \in Origens
         /\ fx' = DisarmCalls(lastCmd'[2]))]_vars

\* the chat disarmed and then the radio disarmed again in the same pass
C19_Witness ==
  /\ pc = "checarBotao"
  /\ ciclo = << <<"desarmarSistema", "Telegram">>, <<"desarmarSistema", "Controle RF">> >>
  /\ fx = DisarmCalls("Controle RF")
  /\ ~sistemaAtivo /\ ~alarmeDisparado /\ relay = LOW

\* C20: setup() leaves the system disarmed, untriggered and the relay LOW,
\* whatever the pin was before; after setup() and after every statement of
\* loop() the relay is HIGH exactly when alarmeDisparado is true.
C20_RelayFollowsTriggered ==
  [][/\ pc' # "setup" => (relay' = HIGH <=> alarmeDisparado')
     /\ (pc = "setup" /\ pc' # pc)
          => (/\ ~sistemaAtivo' /\ ~alarmeDisparado' /\ relay' = LOW
              /\ fx'[1] = <<"digitalWrite", LOW, "">>)]_vars

\* the radio has disarmed a triggered system: the siren went on and off again
C20_Witness ==
  /\ lastCmd = <<"desarmarSistema", "Controle RF">>
  /\ sirenes = 1
  /\ relay = LOW /\ ~alarmeDisparado /\ ~sistemaAtivo

\* C21: once the alarm is triggered, every step other than the handling of a
\* Disarm leaves the system armed and triggered with the relay HIGH and writes
\* no relay: the PIR pin reading LOW, time passing, an Arm, /status, /logs, an
\* unrecognized text and an unknown radio code included.
C21_TriggerLatched ==
  [][(alarmeDisparado /\ ~(ProgramStep /\ lastCmd'[1] = "desarmarSistema"))
     => (/\ sistemaAtivo' /\ alarmeDisparado' /\ relay' = HIGH
         /\ ProgramStep => \A k \in 1..Len(fx') : fx'[k][1] # "digitalWrite")]_vars

\* the PIR pin read LOW while the siren was on, after the clock had advanced
C21_Witness ==
  /\ lastCmd = <<"motion", LOW>>
  /\ ticks = 0
  /\ sistemaAtivo /\ alarmeDisparado /\ relay = HIGH
  /\ fx = <<>>

\* the counter has wrapped since the timestamp last was taken
Wrapped(last) == last[1] = Half - 1 /\ now[1] = 0

\* C22: each elapsed-time test gives the answer the time that really passed
\* since its timestamp was taken gives, also when the counter has wrapped in
\* between: the chat is polled exactly when the link is up and more than
\* msgInterval has passed, the link is checked exactly when more than
\* wifiCheckInterval has passed, and the debounce test of a poll that sees no
\* change holds exactly when more than debounceDelay has passed.
C22_WrapKeepsGates ==
  [][/\ (pc = "checarTelegram" /\ pc' # pc)
          => (pc' = "forMessages" <=> (wifiUp /\ desdeMsg > msgInterval))
     /\ (pc = "checarWiFi" /\ pc' # pc)
          => (lastWiFiCheck' # lastWiFiCheck <=> desdeWiFi > wifiCheckInterval)
     /\ (pc = "checarBotao" /\ pc' # pc /\ botaoPin = ultimoEstado)
          => (Gt32(Sub32(now, ultimoDebounce), debounceDelay) <=> desdeBotao > debounceDelay)
     /\ (pc = "checarBotao" /\ pc' # pc /\ botaoPin # ultimoEstado)
          => (ultimoDebounce' = now /\ lastCmd' = NoCmd)]_vars

\* the chat was polled after the wrap, on a timestamp taken before it
C22_Witness ==
  /\ pc = "forMessages"
  /\ lastFetch = now
  /\ Wrapped(lastMsgTime)
  /\ desdeMsg = msgInterval + 1

====
